---- MODULE Spec2Model ----
(***************************************************************************)
(* A model of the pomodoro core of kubaliski/gomodoro: the session engine  *)
(* (core/engine/engine.go), the countdown timer it owns (package timer),   *)
(* the statistics accumulator (stats/stats.go) and the break rule of the   *)
(* configuration (package config).                                         *)
(*                                                                         *)
(* Goroutines are processes: the control loops started by Engine.Start,    *)
(* the startNextSession goroutines scheduled with `go`, and the threads    *)
(* that call Pause/Resume/Skip.  An action is one call of a public method, *)
(* one channel operation of sendCommand, one case of the loop's select     *)
(* (the tick with the handler it runs; the receipt of a command, and then  *)
(* its handling), or one run of startNextSession.                          *)
(*                                                                         *)
(* Specifications: Spec, the engine; LongSpec, the engine with one more    *)
(* call; and one for each object driven directly through its methods:      *)
(* TimerSpec (Timer), StatsSpec and StatsLockSpec (SessionStats, call by   *)
(* call and statement by statement), BusSpec (EventBus) and ConfigSpec     *)
(* (Config.Validate).                                                      *)
(*                                                                         *)
(* Time is counted in quanta of half a second, so that Second == 2; the    *)
(* configurations of the engine specification are scaled down to a few     *)
(* ticks.  `now` is a logical clock standing for time.Now(): it advances   *)
(* each time an interval is started, so that distinct intervals have       *)
(* distinct start times.                                                   *)
(***************************************************************************)
EXTENDS Integers, Sequences, FiniteSets, TLC

VARIABLES
    cfg,              \* Engine.config
    isRunning,        \* Engine.isRunning
    state,            \* Engine.state
    currentSession,   \* Engine.currentSession
    pomodoroCount,    \* Engine.pomodoroCount
    currentTimer,     \* Engine.currentTimer (NilTimer: the nil pointer)
    sessionStartTime, \* Engine.sessionStartTime
    ctx,              \* Engine.ctx: "none", "live" or "cancelled"
    commandChan,      \* Engine.commandChan: the buffered commands
    loops,            \* runEventLoop goroutines that have not returned
    pendingNext,      \* startNextSession goroutines scheduled and not yet run
    callers,          \* the threads inside sendCommand
    stats,            \* Engine.statsManager
    started,          \* kinds of the session-started events published so far
    ret,              \* the last call of an engine method that returned, and its error
    now,              \* logical clock (time.Now())
    calls,            \* calls of the engine's methods still to make
    handling,         \* commands a control loop has received and not yet handled
    published,        \* the events the last step published on the event bus
    sfsCalled,        \* StartFirstSession was called since the engine was started
    timer,            \* a Timer of its own (specification TimerSpec)
    ops,              \* the calls made on the object of a unit specification
    acc,              \* a SessionStats of its own (StatsSpec, StatsLockSpec)
    snap,             \* the last StatsSnapshot GetSnapshot returned
    mu,               \* SessionStats.mu of that accumulator
    wr,               \* the thread that records into that accumulator
    bus,              \* an EventBus of its own (BusSpec)
    tasks,            \* the handler goroutines Publish started on that bus
    crashed,          \* the process of that bus died of a panic
    candidate,        \* a Config of its own (ConfigSpec)
    verdict           \* what Validate returned for that Config

vars == <<cfg, isRunning, state, currentSession, pomodoroCount, currentTimer,
          sessionStartTime, ctx, commandChan, loops, pendingNext, callers,
          stats, started, ret, now, calls, handling, published, sfsCalled,
          timer, ops, acc, snap, mu, wr, bus, tasks, crashed, candidate,
          verdict>>

engineVars == <<isRunning, state, currentSession, pomodoroCount, currentTimer,
                sessionStartTime, ctx>>

\* The objects of the unit specifications, which the engine never touches.
statsVars == <<acc, snap, mu, wr>>
busVars == <<bus, tasks, crashed>>
configVars == <<candidate, verdict>>
unitVars == <<timer, ops, statsVars, busVars, configVars>>

------------------------------------------------------------------------------
(* Bounds of the model *)

MaxCalls == 4        \* calls of the engine's methods per behaviour
MaxIntervals == 4    \* intervals started per behaviour
MaxPending == 2      \* startNextSession goroutines scheduled at one time

MaxLoops == 2        \* runEventLoop goroutines alive at one time

MaxOps == 5          \* calls of the methods of a Timer or a SessionStats
MaxDuration == 6     \* longest duration of that Timer, in quanta

MaxSubs == 2         \* subscriptions made on the EventBus of BusSpec
MaxPublish == 2      \* events published on that bus
MaxUnsubs == 1       \* calls of Unsubscribe on that bus

Callers == {"c1", "c2"}

------------------------------------------------------------------------------
(* Constants of the program *)

Second == 2
CommandChanCap == 10

StateIdle == "idle"
StateRunning == "running"
StatePaused == "paused"
StateStopped == "stopped"

SessionWork == "work"
SessionShortBreak == "short_break"
SessionLongBreak == "long_break"

TimerIdle == "idle"
TimerRunning == "running"
TimerPaused == "paused"
TimerSkipped == "skipped"
TimerDone == "done"

ErrNotRunning == "engine is not running"
ErrEngineNotRunning == "engine not running"
ErrCanceled == "context canceled"
Nil == "nil"

\* package events: the types of the events the engine publishes
EngineStarted == "engine_started"
EngineStopped == "engine_stopped"
TimerStarted == "timer_started"
TimerTick == "timer_tick"
TimerPausedEvent == "timer_paused"
TimerResumed == "timer_resumed"
TimerCompleted == "timer_completed"
TimerSkippedEvent == "timer_skipped"
PomodoroStarted == "pomodoro_started"
PomodoroCompleted == "pomodoro_completed"
PomodoroSkipped == "pomodoro_skipped"
BreakStarted == "break_started"
BreakCompleted == "break_completed"
BreakSkipped == "break_skipped"
StatsUpdated == "stats_updated"

\* An event: its type and what its payload refers to ("none": nothing that
\* is followed here).
Event(type, data) == [type |-> type, data |-> data]

\* Two objects hold a configuration: the one the engine keeps in e.config,
\* and any copy made by Config.Clone.  A value handed out is one or the other.
EngineConfigRef == "e.config"
ClonedConfigRef == "clone of e.config"

------------------------------------------------------------------------------
(* package config *)

\* The break rule counting from zero (a mutation used to test C1).
GetNextBreakTypeOffByOne(c, pomodoroNumber) ==
    IF (pomodoroNumber + 1) % c.LongBreakInterval = 0
    THEN [duration |-> c.LongBreak, isLong |-> TRUE]
    ELSE [duration |-> c.ShortBreak, isLong |-> FALSE]

GetNextBreakType(c, pomodoroNumber) ==
    IF pomodoroNumber % c.LongBreakInterval = 0
    THEN [duration |-> c.LongBreak, isLong |-> TRUE]
    ELSE [duration |-> c.ShortBreak, isLong |-> FALSE]

Minute == 60 * Second

DefaultConfig ==
    [WorkDuration |-> 25 * Minute, ShortBreak |-> 5 * Minute,
     LongBreak |-> 15 * Minute, LongBreakInterval |-> 4]

\* Validate not called yet.
NotValidated == "not validated"

\* Validate without its last test: a long break equal to the short one passes
\* (a mutation used to test C29).
ValidateWithoutOrder(c) ==
    IF c.WorkDuration < 1 * Minute
    THEN "validation error in WorkDuration: must be at least 1 minute"
    ELSE IF c.WorkDuration > 120 * Minute
    THEN "validation error in WorkDuration: must be less than 2 hours"
    ELSE IF c.ShortBreak < 1 * Minute
    THEN "validation error in ShortBreak: must be at least 1 minute"
    ELSE IF c.ShortBreak > 30 * Minute
    THEN "validation error in ShortBreak: must be less than 30 minutes"
    ELSE IF c.LongBreak < 5 * Minute
    THEN "validation error in LongBreak: must be at least 5 minutes"
    ELSE IF c.LongBreak > 60 * Minute
    THEN "validation error in LongBreak: must be less than 1 hour"
    ELSE IF c.LongBreakInterval < 2
    THEN "validation error in LongBreakInterval: must be at least 2"
    ELSE IF c.LongBreakInterval > 10
    THEN "validation error in LongBreakInterval: must be less than 10"
    ELSE Nil

\* Validate: the error it returns, as the text of its Error(), or Nil.
Validate(c) ==
    IF c.WorkDuration < 1 * Minute
    THEN "validation error in WorkDuration: must be at least 1 minute"
    ELSE IF c.WorkDuration > 120 * Minute
    THEN "validation error in WorkDuration: must be less than 2 hours"
    ELSE IF c.ShortBreak < 1 * Minute
    THEN "validation error in ShortBreak: must be at least 1 minute"
    ELSE IF c.ShortBreak > 30 * Minute
    THEN "validation error in ShortBreak: must be less than 30 minutes"
    ELSE IF c.LongBreak < 5 * Minute
    THEN "validation error in LongBreak: must be at least 5 minutes"
    ELSE IF c.LongBreak > 60 * Minute
    THEN "validation error in LongBreak: must be less than 1 hour"
    ELSE IF c.LongBreakInterval < 2
    THEN "validation error in LongBreakInterval: must be at least 2"
    ELSE IF c.LongBreakInterval > 10
    THEN "validation error in LongBreakInterval: must be less than 10"
    ELSE IF c.LongBreak <= c.ShortBreak
    THEN "validation error in LongBreak: must be longer than short break"
    ELSE Nil

\* The configurations of the engine specification: short durations (in
\* quanta, whole seconds), long break longer than the short one.
Configs ==
    { [WorkDuration |-> Second, ShortBreak |-> Second,
       LongBreak |-> 2 * Second, LongBreakInterval |-> L] : L \in {2, 3} }

------------------------------------------------------------------------------
(* package timer *)

NilTimer ==
    [alloc |-> FALSE, duration |-> 0, remaining |-> 0, state |-> TimerIdle,
     startedAt |-> 0]

NewTimer(duration) ==
    [alloc |-> TRUE, duration |-> duration, remaining |-> duration,
     state |-> TimerIdle, startedAt |-> 0]

\* Start that restarts a Timer from any state (a mutation used to test C32).
TimerStartAnyState(t, at) == [t EXCEPT !.startedAt = at, !.state = TimerRunning]

TimerStart(t, at) ==
    IF t.state # TimerIdle /\ t.state # TimerPaused THEN t
    ELSE IF t.state = TimerIdle
         THEN [t EXCEPT !.startedAt = at, !.state = TimerRunning]
         ELSE [t EXCEPT !.state = TimerRunning]

TimerPause(t) ==
    IF t.state # TimerRunning THEN t ELSE [t EXCEPT !.state = TimerPaused]

TimerResume(t, at) == TimerStart(t, at)

\* Skip from any state (a mutation used to test C20).
TimerSkipAnyState(t) == [t EXCEPT !.state = TimerSkipped]

TimerSkip(t) ==
    IF t.state = TimerRunning \/ t.state = TimerPaused
    THEN [t EXCEPT !.state = TimerSkipped]
    ELSE t

\* Stop that leaves the remaining time as it is (a mutation used to test
\* C13).
TimerStopKeepsRemaining(t) == [t EXCEPT !.state = TimerIdle]

TimerStop(t) == [t EXCEPT !.state = TimerIdle, !.remaining = t.duration]

TimerReset(t) ==
    [t EXCEPT !.state = TimerIdle, !.remaining = t.duration, !.startedAt = 0]

\* Tick that finishes one tick late (a mutation used to test C18).
TickFinishesLate(t) ==
    IF t.state = TimerRunning /\ t.remaining >= 0
    THEN LET r == t.remaining - Second
         IN  [t EXCEPT !.remaining = IF r < 0 THEN 0 ELSE r,
                       !.state = IF r < 0 THEN TimerDone ELSE TimerRunning]
    ELSE t

\* Tick that counts down a paused timer too (a mutation used to test C19).
TickIgnoresPause(t) ==
    IF t.state \in {TimerRunning, TimerPaused} /\ t.remaining > 0
    THEN LET r == t.remaining - Second
         IN  [t EXCEPT !.remaining = r,
                       !.state = IF r <= 0 THEN TimerDone ELSE t.state]
    ELSE t

Tick(t) ==
    IF t.state = TimerRunning /\ t.remaining > 0
    THEN LET r == t.remaining - Second
         IN  [t EXCEPT !.remaining = r,
                       !.state = IF r <= 0 THEN TimerDone ELSE TimerRunning]
    ELSE t

\* createSnapshot: the fields of the snapshot that depend on the countdown.
\* Progress is the quotient float64(duration-remaining)/float64(duration),
\* kept as numerator and denominator.
CreateSnapshot(t) ==
    [State |-> t.state, Duration |-> t.duration, Remaining |-> t.remaining,
     Progress |-> IF t.duration > 0
                  THEN [num |-> t.duration - t.remaining, den |-> t.duration]
                  ELSE [num |-> 0, den |-> 1]]

IsRunning(t) == t.state = TimerRunning
IsPaused(t) == t.state = TimerPaused
IsFinished(t) == t.state = TimerDone
IsSkipped(t) == t.state = TimerSkipped

------------------------------------------------------------------------------
(* package stats *)

\* NewSessionStats, built at time 0.
NewSessionStats ==
    [PomodorosCompleted |-> 0, PomodorosSkipped |-> 0, BreaksCompleted |-> 0,
     BreaksSkipped |-> 0, LongBreaksCompleted |-> 0, TotalWorkTime |-> 0,
     TotalBreakTime |-> 0, SessionStartTime |-> 0, CurrentStreakCount |-> 0,
     BestStreakCount |-> 0, CompletedSessions |-> <<>>]

CompletedSession(type, duration, startTime, completed) ==
    [Type |-> type, Duration |-> duration, StartTime |-> startTime,
     Completed |-> completed]

\* A completed work interval that leaves the best streak as it is (a
\* mutation used to test C22).
AddCompletedPomodoroKeepsBest(s, duration, actualTime, startTime) ==
    [s EXCEPT
      !.PomodorosCompleted = @ + 1,
      !.TotalWorkTime = @ + actualTime,
      !.CurrentStreakCount = @ + 1,
      !.CompletedSessions =
          Append(@, CompletedSession("TRABAJO", duration, startTime, TRUE))]

AddCompletedPomodoro(s, duration, actualTime, startTime) ==
    LET streak == s.CurrentStreakCount + 1
    IN  [s EXCEPT
          !.PomodorosCompleted = @ + 1,
          !.TotalWorkTime = @ + actualTime,
          !.CurrentStreakCount = streak,
          !.BestStreakCount = IF streak > @ THEN streak ELSE @,
          !.CompletedSessions =
              Append(@, CompletedSession("TRABAJO", duration, startTime, TRUE))]

AddSkippedPomodoro(s, duration, actualTime, startTime) ==
    [s EXCEPT
      !.PomodorosSkipped = @ + 1,
      !.TotalWorkTime = @ + actualTime,
      !.CurrentStreakCount = 0,
      !.CompletedSessions =
          Append(@, CompletedSession("TRABAJO", duration, startTime, FALSE))]

AddCompletedBreak(s, breakType, duration, actualTime, startTime) ==
    [s EXCEPT
      !.BreaksCompleted = @ + 1,
      !.TotalBreakTime = @ + actualTime,
      !.LongBreaksCompleted = IF breakType = "DESCANSO LARGO" THEN @ + 1 ELSE @,
      !.CompletedSessions =
          Append(@, CompletedSession(breakType, duration, startTime, TRUE))]

\* A skipped break that ends the streak (a mutation used to test C33).
AddSkippedBreakEndsStreak(s, breakType, duration, actualTime, startTime) ==
    [s EXCEPT
      !.BreaksSkipped = @ + 1,
      !.TotalBreakTime = @ + actualTime,
      !.CurrentStreakCount = 0,
      !.CompletedSessions =
          Append(@, CompletedSession(breakType, duration, startTime, FALSE))]

AddSkippedBreak(s, breakType, duration, actualTime, startTime) ==
    [s EXCEPT
      !.BreaksSkipped = @ + 1,
      !.TotalBreakTime = @ + actualTime,
      !.CompletedSessions =
          Append(@, CompletedSession(breakType, duration, startTime, FALSE))]

getTotalSessions(s) ==
    s.PomodorosCompleted + s.PomodorosSkipped + s.BreaksCompleted +
    s.BreaksSkipped

\* The percentage with every skipped work interval counted as completed (a
\* mutation used to test C23).
calculateWorkEfficiencyOfAll(s) ==
    LET total == s.PomodorosCompleted + s.PomodorosSkipped
    IN  IF total = 0 THEN [num |-> 0, den |-> 1]
        ELSE [num |-> total * 100, den |-> total]

\* The percentage float64(completed)/float64(total)*100, kept as numerator
\* and denominator.
calculateWorkEfficiency(s) ==
    LET total == s.PomodorosCompleted + s.PomodorosSkipped
    IN  IF total = 0 THEN [num |-> 0, den |-> 1]
        ELSE [num |-> s.PomodorosCompleted * 100, den |-> total]

\* GetSnapshot called at time at.
GetSnapshot(s, at) ==
    [PomodorosCompleted |-> s.PomodorosCompleted,
     PomodorosSkipped |-> s.PomodorosSkipped,
     BreaksCompleted |-> s.BreaksCompleted,
     BreaksSkipped |-> s.BreaksSkipped,
     LongBreaksCompleted |-> s.LongBreaksCompleted,
     CurrentStreak |-> s.CurrentStreakCount,
     BestStreak |-> s.BestStreakCount,
     TotalWorkTime |-> s.TotalWorkTime,
     TotalBreakTime |-> s.TotalBreakTime,
     SessionDuration |-> at - s.SessionStartTime,
     WorkEfficiency |-> calculateWorkEfficiency(s),
     TotalSessions |-> getTotalSessions(s)]

\* Reset that keeps the best streak (a mutation used to test C25).
StatsResetKeepsBest(s, at) ==
    [NewSessionStats EXCEPT !.SessionStartTime = at,
                            !.BestStreakCount = s.BestStreakCount]

\* Reset called at time at.
StatsReset(s, at) == [NewSessionStats EXCEPT !.SessionStartTime = at]

\* s.mu.Lock() returns: no writer and no reader holds the mutex.
MayLock(m) == ~m.writer /\ m.readers = 0

\* A read lock that writers do not exclude (a mutation used to test C24).
MayRLockAlways(m) == TRUE

\* s.mu.RLock() returns: no writer holds the mutex.
MayRLock(m) == ~m.writer

\* The fields the k-th statement of a recording method assigns: the counter,
\* the accumulated duration, the streaks or the long-break counter, the log.
StatementFields(k) ==
    CASE k = 1 -> {"PomodorosCompleted", "PomodorosSkipped",
                   "BreaksCompleted", "BreaksSkipped"}
      [] k = 2 -> {"TotalWorkTime", "TotalBreakTime"}
      [] k = 3 -> {"CurrentStreakCount", "BestStreakCount",
                   "LongBreaksCompleted"}
      [] k = 4 -> {"CompletedSessions"}

\* No snapshot taken yet.
NoSnapshot == [taken |-> FALSE]

\* SessionStats.mu: the writer that holds it, the readers that hold it.
NewRWMutex == [writer |-> FALSE, readers |-> 0]

\* The recording thread outside any call.
IdleWriter == [pc |-> 0, call |-> "none", from |-> NewSessionStats]

\* ImportJSON of a document, doc.ok telling whether json.Unmarshal accepts it
\* and doc.data what it holds: every field of the document is copied as it
\* is; a document that does not parse leaves the accumulator as it was.
ImportJSON(s, doc) == IF ~doc.ok THEN s ELSE doc.data

------------------------------------------------------------------------------
(* package events *)

\* The event types of the bus specification.
BusEventTypes == {TimerTick, StatsUpdated}

NewEventBus ==
    [handlers |-> [t \in BusEventTypes |-> <<>>], global |-> <<>>]

Handlers == {"h1", "h2"}

Subscribe(b, eventType, handler) ==
    [b EXCEPT !.handlers[eventType] = Append(@, handler)]

SubscribeGlobal(b, handler) == [b EXCEPT !.global = Append(@, handler)]

\* SubscribeGlobalFunc: SubscribeGlobal with the function as handler.
SubscribeGlobalFunc(b, handler) == SubscribeGlobal(b, handler)

\* &handler == &targetHandler in Unsubscribe: the addresses of the loop
\* variable and of the parameter, two distinct variables, whatever handlers
\* they hold.
SameHandler(handler, targetHandler) == FALSE

\* Unsubscribe: the first entry of the type's list that the comparison
\* accepts is cut out of the list.
Unsubscribe(b, eventType, targetHandler) ==
    LET hs == b.handlers[eventType]
        found == {i \in 1..Len(hs) : SameHandler(hs[i], targetHandler)}
    IN  IF found = {} THEN b
        ELSE LET i == CHOOSE k \in found : \A m \in found : k <= m
             IN  [b EXCEPT !.handlers[eventType] =
                     SubSeq(hs, 1, i - 1) \o SubSeq(hs, i + 1, Len(hs))]

GetSubscriberCount(b, eventType) == Len(b.handlers[eventType])

\* handler.HandleEvent(event) without `go`: the publisher waits for the
\* handler to return (a mutation used to test C27).
CallHandler(handler, event) ==
    [handler |-> handler, event |-> event, pc |-> "started", awaited |-> TRUE]

\* go handler.HandleEvent(event): a goroutine the publisher does not wait
\* for.
StartHandler(handler, event) ==
    [handler |-> handler, event |-> event, pc |-> "started",
     awaited |-> FALSE]

\* Publish that looks at the global list only when the event's type has no
\* handler of its own (a mutation used to test C26).
DispatchesTypeFirst(b, event) ==
    IF b.handlers[event.type] # <<>>
    THEN [i \in 1..Len(b.handlers[event.type]) |->
             StartHandler(b.handlers[event.type][i], event)]
    ELSE [i \in 1..Len(b.global) |-> StartHandler(b.global[i], event)]

\* The goroutines Publish starts for the event: one for each entry of the
\* global list, then one for each entry of the list of the event's type.
Dispatches(b, event) ==
    [i \in 1..Len(b.global) |-> StartHandler(b.global[i], event)] \o
    [i \in 1..Len(b.handlers[event.type]) |->
        StartHandler(b.handlers[event.type][i], event)]

------------------------------------------------------------------------------
(* package engine: helpers *)

\* events.PomodoroEventData: the sequence number and the start time.
PomodoroEventData(number, startTime) ==
    [Number |-> number, StartTime |-> startTime]

\* The number emitSessionStartedEvent gives the work interval it announces.
StartedNumber(count) == count + 1

\* The number emitSessionCompletedEvent and emitSessionSkippedEvent give the
\* work interval they report.
EndedNumber(count) == count

UpdateStateFromSession(session, st) ==
    CASE session = SessionWork -> StateRunning
      [] session \in {SessionShortBreak, SessionLongBreak} -> StateRunning
      [] OTHER -> st

GetBreakTypeString(sessionType) ==
    IF sessionType = SessionLongBreak THEN "DESCANSO LARGO" ELSE "DESCANSO"

\* The three command handlers: the timer and engine state they leave, and the
\* error they return.
\* pauseCurrentTimer without its test of the countdown's state (a mutation
\* used to test C38).
PauseCurrentTimerAnyState(t, st) ==
    IF t.alloc
    THEN [timer |-> TimerPause(t), state |-> StatePaused, err |-> Nil,
          events |-> <<Event(TimerPausedEvent, "none")>>]
    ELSE [timer |-> t, state |-> st, err |-> Nil, events |-> <<>>]

PauseCurrentTimer(t, st) ==
    IF t.alloc /\ IsRunning(t) /\ ~IsPaused(t)
    THEN [timer |-> TimerPause(t), state |-> StatePaused, err |-> Nil,
          events |-> <<Event(TimerPausedEvent, "none")>>]
    ELSE [timer |-> t, state |-> st, err |-> Nil, events |-> <<>>]

ResumeCurrentTimer(t, st, session, at) ==
    IF t.alloc /\ IsPaused(t)
    THEN [timer |-> TimerResume(t, at),
          state |-> UpdateStateFromSession(session, st), err |-> Nil,
          events |-> <<Event(TimerResumed, "none")>>]
    ELSE [timer |-> t, state |-> st, err |-> Nil, events |-> <<>>]

SkipCurrentTimer(t, st) ==
    IF t.alloc /\ (IsRunning(t) \/ IsPaused(t))
    THEN [timer |-> TimerSkip(t), state |-> st, err |-> Nil,
          events |-> <<>>]
    ELSE [timer |-> t, state |-> st, err |-> Nil, events |-> <<>>]

HandleCommandResult(action, t, st, session, at) ==
    CASE action = "pause" -> PauseCurrentTimer(t, st)
      [] action = "resume" -> ResumeCurrentTimer(t, st, session, at)
      [] action = "skip" -> SkipCurrentTimer(t, st)
      [] OTHER -> [timer |-> t, state |-> st, err |-> "unknown command",
                   events |-> <<>>]

\* Room for one more scheduled startNextSession goroutine (bound of the model).
MayScheduleNext == pendingNext < MaxPending

------------------------------------------------------------------------------
(* Engine: the public calls *)

\* Whether a call of Start starts the engine.
StartStarts(running) == ~running

\* The engine state a mutated Start would leave (used to test C11).
StartStateRunning == StateRunning

\* The engine state Start leaves.
StartState == StateIdle

\* The configuration the engine-started event carries (ConfigUsed).
StartConfigUsed == EngineConfigRef

\* The configuration NewEngine keeps: cfg.Clone().
NewEngineConfig == ClonedConfigRef

\* The configuration GetConfig returns: e.config.Clone().
GetConfig == ClonedConfigRef

Start ==
    /\ calls > 0
    /\ calls' = calls - 1
    /\ ret' = [op |-> "Start", err |-> Nil]
    /\ IF ~StartStarts(isRunning)
       THEN /\ published' = <<>>
            /\ UNCHANGED <<isRunning, state, pomodoroCount, currentSession,
                           ctx, loops, sfsCalled>>
       ELSE /\ loops < MaxLoops
            /\ loops' = loops + 1
            /\ ctx' = "live"
            /\ isRunning' = TRUE
            /\ state' = StartState
            /\ pomodoroCount' = 0
            /\ currentSession' = SessionWork
            /\ sfsCalled' = FALSE
            /\ published' = <<Event(EngineStarted, StartConfigUsed)>>
    /\ UNCHANGED <<unitVars, cfg, currentTimer, sessionStartTime, commandChan,
                   pendingNext, callers, stats, started, now, handling>>

\* StartFirstSession without the check for an existing countdown (a mutation
\* used to test C9).
StartFirstSessionIgnoresTimer(running, t) ==
    IF ~running THEN [err |-> ErrEngineNotRunning, schedule |-> FALSE]
    ELSE [err |-> Nil, schedule |-> TRUE]

\* What StartFirstSession returns and whether it schedules startNextSession.
StartFirstSessionResult(running, t) ==
    IF ~running THEN [err |-> ErrEngineNotRunning, schedule |-> FALSE]
    ELSE IF t.alloc THEN [err |-> Nil, schedule |-> FALSE]
    ELSE [err |-> Nil, schedule |-> TRUE]

StartFirstSession ==
    /\ calls > 0
    /\ calls' = calls - 1
    /\ LET r == StartFirstSessionResult(isRunning, currentTimer)
       IN  /\ ret' = [op |-> "StartFirstSession", err |-> r.err]
           /\ IF r.schedule
              THEN /\ MayScheduleNext
                   /\ pendingNext' = pendingNext + 1
              ELSE UNCHANGED pendingNext
    /\ sfsCalled' = (sfsCalled \/ isRunning)
    /\ published' = <<>>
    /\ UNCHANGED <<unitVars, cfg, engineVars, commandChan, loops, callers,
                   stats, started, now, handling>>

Stop ==
    /\ calls > 0
    /\ calls' = calls - 1
    /\ ret' = [op |-> "Stop", err |-> Nil]
    /\ IF ~isRunning
       THEN /\ published' = <<>>
            /\ UNCHANGED <<isRunning, state, currentTimer, ctx>>
       ELSE /\ isRunning' = FALSE
            /\ state' = StateStopped
            /\ currentTimer' = IF currentTimer.alloc
                               THEN TimerStop(currentTimer)
                               ELSE currentTimer
            /\ ctx' = "cancelled"
            /\ published' = <<Event(EngineStopped, "none")>>
    /\ UNCHANGED <<unitVars, cfg, currentSession, pomodoroCount,
                   sessionStartTime, commandChan, loops, pendingNext, callers,
                   stats, started, now, handling, sfsCalled>>

\* The caller of Start cancels the context it passed.
CancelParent ==
    /\ calls > 0
    /\ ctx = "live"
    /\ calls' = calls - 1
    /\ ctx' = "cancelled"
    /\ published' = <<>>
    /\ UNCHANGED <<unitVars, cfg, isRunning, state, currentSession,
                   pomodoroCount, currentTimer, sessionStartTime, commandChan,
                   loops, pendingNext, callers, stats, started, ret, now,
                   handling, sfsCalled>>

------------------------------------------------------------------------------
(* Engine.sendCommand, one thread per caller *)

\* A thread that is not inside sendCommand.
IdleCaller == [pc |-> "idle", action |-> "none", reply |-> "none"]

\* sendCommand without its running check (a mutation used to test C7).
SendCommandAdmitsAlways(running) == TRUE

\* The running check at the head of sendCommand.
SendCommandAdmits(running) == running

SendCommand(c, action) ==
    /\ calls > 0
    /\ callers[c].pc = "idle"
    /\ calls' = calls - 1
    /\ IF ~SendCommandAdmits(isRunning)
       THEN /\ ret' = [op |-> action, err |-> ErrNotRunning]
            /\ UNCHANGED callers
       ELSE /\ callers' = [callers EXCEPT ![c].pc = "select",
                                          ![c].action = action]
            /\ UNCHANGED ret
    /\ published' = <<>>
    /\ UNCHANGED <<unitVars, cfg, engineVars, commandChan, loops, pendingNext,
                   stats, started, now, handling, sfsCalled>>

\* select: case e.commandChan <- cmd
SendEnqueue(c) ==
    /\ callers[c].pc = "select"
    /\ Len(commandChan) < CommandChanCap
    /\ commandChan' = Append(commandChan,
                             [action |-> callers[c].action, caller |-> c])
    /\ callers' = [callers EXCEPT ![c].pc = "await"]
    /\ published' = <<>>
    /\ UNCHANGED <<unitVars, cfg, engineVars, loops, pendingNext, stats,
                   started, ret, now, calls, handling, sfsCalled>>

\* select: case <-e.ctx.Done(): return e.ctx.Err()
SendCancelled(c) ==
    /\ callers[c].pc = "select"
    /\ ctx = "cancelled"
    /\ callers' = [callers EXCEPT ![c] = IdleCaller]
    /\ ret' = [op |-> callers[c].action, err |-> ErrCanceled]
    /\ published' = <<>>
    /\ UNCHANGED <<unitVars, cfg, engineVars, commandChan, loops, pendingNext,
                   stats, started, now, calls, handling, sfsCalled>>

\* return <-cmd.result
SendReturn(c) ==
    /\ callers[c].pc = "await"
    /\ callers[c].reply # "none"
    /\ ret' = [op |-> callers[c].action, err |-> callers[c].reply]
    /\ callers' = [callers EXCEPT ![c] = IdleCaller]
    /\ published' = <<>>
    /\ UNCHANGED <<unitVars, cfg, engineVars, commandChan, loops, pendingNext,
                   stats, started, now, calls, handling, sfsCalled>>

------------------------------------------------------------------------------
(* Engine.runEventLoop: one iteration is one case of its select *)

\* The control loops that are at their select (not inside handleCommand).
FreeLoops == loops - Len(handling)

\* q without its i-th element.
RemoveAt(q, i) == SubSeq(q, 1, i - 1) \o SubSeq(q, i + 1, Len(q))

\* case <-e.ctx.Done(): return
LoopExit ==
    /\ FreeLoops > 0
    /\ ctx = "cancelled"
    /\ loops' = loops - 1
    /\ published' = <<>>
    /\ UNCHANGED <<unitVars, cfg, engineVars, commandChan, pendingNext,
                   callers, stats, started, ret, now, calls, handling,
                   sfsCalled>>

\* case cmd := <-e.commandChan: a loop receives the oldest command
LoopReceive ==
    /\ FreeLoops > 0
    /\ commandChan # <<>>
    /\ handling' = Append(handling, Head(commandChan))
    /\ commandChan' = Tail(commandChan)
    /\ published' = <<>>
    /\ UNCHANGED <<unitVars, cfg, engineVars, loops, pendingNext, callers,
                   stats, started, ret, now, calls, sfsCalled>>

\* e.handleCommand(cmd), by the loop that received the i-th of the commands
\* being handled
LoopCommand(i) ==
    /\ i \in 1..Len(handling)
    /\ LET cmd == handling[i]
           r == HandleCommandResult(cmd.action, currentTimer, state,
                                    currentSession, now)
       IN  /\ currentTimer' = r.timer
           /\ state' = r.state
           /\ callers' = [callers EXCEPT ![cmd.caller].reply = r.err]
           /\ published' = r.events
    /\ handling' = RemoveAt(handling, i)
    /\ UNCHANGED <<unitVars, cfg, isRunning, currentSession, pomodoroCount,
                   sessionStartTime, ctx, commandChan, loops, pendingNext,
                   stats, started, ret, now, calls, sfsCalled>>

\* The record handleTimerCompleted adds to the statistics.
RecordCompleted(s, session, t, startTime, endTime) ==
    IF session = SessionWork
    THEN AddCompletedPomodoro(s, t.duration, endTime - startTime, startTime)
    ELSE AddCompletedBreak(s, GetBreakTypeString(session), t.duration,
                           endTime - startTime, startTime)

\* The events handleTick publishes (payloads: of the work-interval events
\* only): the tick, and what handleTimerCompleted
\* or handleTimerSkipped publish after it.
TickEvents(session, outcome, count, startTime) ==
    <<Event(TimerTick, "none")>> \o
    (CASE outcome = "completed" ->
            <<Event(TimerCompleted, "none"), Event(StatsUpdated, "none"),
              IF session = SessionWork
              THEN Event(PomodoroCompleted,
                         PomodoroEventData(EndedNumber(count), startTime))
              ELSE Event(BreakCompleted, "none")>>
       [] outcome = "skipped" ->
            <<Event(TimerSkippedEvent, "none"), Event(StatsUpdated, "none"),
              IF session = SessionWork
              THEN Event(PomodoroSkipped,
                         PomodoroEventData(EndedNumber(count), startTime))
              ELSE Event(BreakSkipped, "none")>>
       [] OTHER -> <<>>)

\* The record handleTimerSkipped adds to the statistics.
RecordSkipped(s, session, t, startTime, endTime) ==
    IF session = SessionWork
    THEN AddSkippedPomodoro(s, t.duration, endTime - startTime, startTime)
    ELSE AddSkippedBreak(s, GetBreakTypeString(session), t.duration,
                         endTime - startTime, startTime)

\* What handleTick does with the timer it has just ticked: "completed"
\* (handleTimerCompleted), "skipped" (handleTimerSkipped) or nothing.
TickOutcome(t) ==
    IF IsFinished(t) THEN "completed"
    ELSE IF IsSkipped(t) THEN "skipped"
    ELSE "none"

\* case <-ticker.C: e.handleTick(), with the handleTimerCompleted or
\* handleTimerSkipped it calls
LoopTick ==
    /\ FreeLoops > 0
    /\ IF ~currentTimer.alloc
       THEN /\ published' = <<>>
            /\ UNCHANGED <<currentTimer, stats, pendingNext>>
       ELSE LET t == Tick(currentTimer)
                o == TickOutcome(t)
            IN  /\ currentTimer' = t
                /\ published' = TickEvents(currentSession, o, pomodoroCount,
                                            sessionStartTime)
                /\ IF o = "none"
                   THEN UNCHANGED <<stats, pendingNext>>
                   ELSE /\ MayScheduleNext
                        /\ stats' = IF o = "completed"
                                    THEN RecordCompleted(stats, currentSession,
                                                         t, sessionStartTime,
                                                         now)
                                    ELSE RecordSkipped(stats, currentSession,
                                                       t, sessionStartTime,
                                                       now)
                        /\ pendingNext' = pendingNext + 1
    /\ UNCHANGED <<unitVars, cfg, isRunning, state, currentSession,
                   pomodoroCount, sessionStartTime, ctx, commandChan, loops,
                   callers, started, ret, now, calls, handling, sfsCalled>>

------------------------------------------------------------------------------
(* Engine.startNextSession, run by a goroutine of its own *)

\* The kind and duration of the next interval, and the counter it leaves.
NextSession(c, t, session, count) ==
    IF ~t.alloc
    THEN [type |-> SessionWork, duration |-> c.WorkDuration, count |-> count]
    ELSE IF session = SessionWork
    THEN LET b == GetNextBreakType(c, count + 1)
         IN  [type |-> IF b.isLong THEN SessionLongBreak
                       ELSE SessionShortBreak,
              duration |-> b.duration, count |-> count + 1]
    ELSE [type |-> SessionWork, duration |-> c.WorkDuration, count |-> count]

\* The events startNextSession publishes for the interval it started.
SessionStartedEvents(type, count, startTime) ==
    <<IF type = SessionWork
      THEN Event(PomodoroStarted,
                 PomodoroEventData(StartedNumber(count), startTime))
      ELSE Event(BreakStarted, "none"),
      Event(TimerStarted, "none")>>

StartNextSession ==
    /\ pendingNext > 0
    /\ pendingNext' = pendingNext - 1
    /\ IF ~isRunning
       THEN /\ published' = <<>>
            /\ UNCHANGED <<currentSession, pomodoroCount, state,
                           sessionStartTime, currentTimer, started, now>>
       ELSE /\ now < MaxIntervals
            /\ LET n == NextSession(cfg, currentTimer, currentSession,
                                    pomodoroCount)
               IN  /\ pomodoroCount' = n.count
                   /\ currentSession' = n.type
                   /\ state' = UpdateStateFromSession(n.type, state)
                   /\ now' = now + 1
                   /\ sessionStartTime' = now'
                   /\ currentTimer' = TimerStart(NewTimer(n.duration), now')
                   /\ started' = Append(started, n.type)
                   /\ published' = SessionStartedEvents(n.type, n.count, now')
    /\ UNCHANGED <<unitVars, cfg, isRunning, ctx, commandChan, loops, callers,
                   stats, ret, calls, handling, sfsCalled>>

------------------------------------------------------------------------------
(* The specification *)

InitEngine ==
    /\ isRunning = FALSE
    /\ state = StateIdle
    /\ currentSession = SessionWork
    /\ pomodoroCount = 0
    /\ currentTimer = NilTimer
    /\ sessionStartTime = 0
    /\ ctx = "none"
    /\ commandChan = <<>>
    /\ loops = 0
    /\ pendingNext = 0
    /\ callers = [c \in Callers |-> IdleCaller]
    /\ stats = NewSessionStats
    /\ started = <<>>
    /\ ret = [op |-> "NewEngine", err |-> Nil]
    /\ now = 0
    /\ handling = <<>>
    /\ published = <<>>
    /\ sfsCalled = FALSE

\* The objects a specification does not drive, as they are built.
NoEngine ==
    /\ cfg = CHOOSE c \in Configs : TRUE
    /\ InitEngine
    /\ calls = 0

NoTimerUnit == timer = NilTimer /\ ops = <<>>

NoStatsUnit ==
    /\ acc = NewSessionStats
    /\ snap = NoSnapshot
    /\ mu = NewRWMutex
    /\ wr = IdleWriter

NoBusUnit ==
    /\ bus = NewEventBus
    /\ tasks = <<>>
    /\ crashed = FALSE

NoConfigUnit ==
    /\ candidate = DefaultConfig
    /\ verdict = NotValidated

\* The variables of the engine, which the unit specifications leave alone.
engineFrame ==
    <<cfg, engineVars, commandChan, loops, pendingNext, callers, stats,
      started, ret, now, calls, handling, published, sfsCalled>>

Init ==
    /\ cfg \in Configs
    /\ InitEngine
    /\ calls = MaxCalls
    /\ NoTimerUnit
    /\ NoStatsUnit
    /\ NoBusUnit
    /\ NoConfigUnit

Next ==
    \/ Start
    \/ StartFirstSession
    \/ Stop
    \/ CancelParent
    \/ \E c \in Callers, a \in {"pause", "resume", "skip"} : SendCommand(c, a)
    \/ \E c \in Callers : SendEnqueue(c)
    \/ \E c \in Callers : SendCancelled(c)
    \/ \E c \in Callers : SendReturn(c)
    \/ LoopExit
    \/ LoopReceive
    \/ \E i \in 1..MaxLoops : LoopCommand(i)
    \/ LoopTick
    \/ StartNextSession

Spec == Init /\ [][Next]_vars

\* The same engine with one more call of its methods: behaviours in which
\* two threads send commands to an engine that was started, stopped and
\* started again.
LongInit ==
    /\ cfg \in Configs
    /\ InitEngine
    /\ calls = MaxCalls + 1
    /\ NoTimerUnit
    /\ NoStatsUnit
    /\ NoBusUnit
    /\ NoConfigUnit

LongSpec == LongInit /\ [][Next]_vars

------------------------------------------------------------------------------
(* The Timer on its own: any sequence of calls of its methods *)

TimerDurations == 1..MaxDuration

\* What the method named op does to the Timer t when called at time at.
TimerCall(op, t, at) ==
    CASE op = "Start" -> TimerStart(t, at)
      [] op = "Pause" -> TimerPause(t)
      [] op = "Resume" -> TimerResume(t, at)
      [] op = "Skip" -> TimerSkip(t)
      [] op = "Stop" -> TimerStop(t)
      [] op = "Reset" -> TimerReset(t)
      [] op = "Tick" -> Tick(t)

CallTimer(op) ==
    /\ Len(ops) < MaxOps
    /\ ops' = Append(ops, op)
    /\ timer' = TimerCall(op, timer, Len(ops) + 1)
    /\ UNCHANGED <<engineFrame, statsVars, busVars, configVars>>

CallStart == CallTimer("Start")
CallPause == CallTimer("Pause")
CallResume == CallTimer("Resume")
CallSkip == CallTimer("Skip")
CallStop == CallTimer("Stop")
CallReset == CallTimer("Reset")
CallTick == CallTimer("Tick")

TimerInit ==
    /\ \E d \in TimerDurations : timer = NewTimer(d)
    /\ ops = <<>>
    /\ NoEngine
    /\ NoStatsUnit
    /\ NoBusUnit
    /\ NoConfigUnit

TimerNext ==
    \/ CallStart
    \/ CallPause
    \/ CallResume
    \/ CallSkip
    \/ CallStop
    \/ CallReset
    \/ CallTick

TimerSpec == TimerInit /\ [][TimerNext]_vars

------------------------------------------------------------------------------
(* The SessionStats on its own: any sequence of calls of its methods.  Each *)
(* method holds s.mu from its first statement to its return, so that a call *)
(* is one step.                                                             *)

\* The calls of the four recording methods: a completed work interval that
\* took its two seconds, a work interval skipped after one, breaks of both
\* kinds.  Every interval starts at time 0.
RecordingCalls ==
    {[op |-> "AddCompletedPomodoro", kind |-> "TRABAJO",
      duration |-> 2 * Second, actualTime |-> 2 * Second],
     [op |-> "AddSkippedPomodoro", kind |-> "TRABAJO",
      duration |-> 2 * Second, actualTime |-> Second]}
    \cup
    {[op |-> o, kind |-> k, duration |-> Second, actualTime |-> Second] :
        o \in {"AddCompletedBreak", "AddSkippedBreak"},
        k \in {"DESCANSO", "DESCANSO LARGO"}}

RecordingOps == {c.op : c \in RecordingCalls}

\* What the recording call does to the accumulator s.
Record(call, s) ==
    CASE call.op = "AddCompletedPomodoro" ->
            AddCompletedPomodoro(s, call.duration, call.actualTime, 0)
      [] call.op = "AddSkippedPomodoro" ->
            AddSkippedPomodoro(s, call.duration, call.actualTime, 0)
      [] call.op = "AddCompletedBreak" ->
            AddCompletedBreak(s, call.kind, call.duration, call.actualTime, 0)
      [] call.op = "AddSkippedBreak" ->
            AddSkippedBreak(s, call.kind, call.duration, call.actualTime, 0)

\* The documents given to ImportJSON: one that does not parse, and one with
\* a current streak above the best streak.
ImportDocs ==
    {[ok |-> FALSE, data |-> NewSessionStats],
     [ok |-> TRUE,
      data |-> [NewSessionStats EXCEPT !.PomodorosCompleted = 2,
                                       !.TotalWorkTime = 4 * Second,
                                       !.CurrentStreakCount = 2,
                                       !.BestStreakCount = 1]]}

\* time.Now(): the time of the last call that read the clock, or later.
StatsNow == IF ops = <<>> THEN 0 ELSE ops[Len(ops)].at
StatsTimes == {StatsNow, StatsNow + 1}

CallRecord(call) ==
    /\ Len(ops) < MaxOps
    /\ acc' = Record(call, acc)
    /\ ops' = Append(ops, [op |-> call.op, at |-> StatsNow])
    /\ UNCHANGED <<engineFrame, timer, snap, mu, wr, busVars, configVars>>

CallAddCompletedPomodoro ==
    \E call \in RecordingCalls :
        call.op = "AddCompletedPomodoro" /\ CallRecord(call)

CallAddSkippedPomodoro ==
    \E call \in RecordingCalls :
        call.op = "AddSkippedPomodoro" /\ CallRecord(call)

CallAddCompletedBreak ==
    \E call \in RecordingCalls :
        call.op = "AddCompletedBreak" /\ CallRecord(call)

CallAddSkippedBreak ==
    \E call \in RecordingCalls :
        call.op = "AddSkippedBreak" /\ CallRecord(call)

CallStatsReset ==
    /\ Len(ops) < MaxOps
    /\ \E at \in StatsTimes :
          /\ acc' = StatsReset(acc, at)
          /\ ops' = Append(ops, [op |-> "Reset", at |-> at])
    /\ UNCHANGED <<engineFrame, timer, snap, mu, wr, busVars, configVars>>

CallImportJSON ==
    /\ Len(ops) < MaxOps
    /\ \E doc \in ImportDocs : acc' = ImportJSON(acc, doc)
    /\ ops' = Append(ops, [op |-> "ImportJSON", at |-> StatsNow])
    /\ UNCHANGED <<engineFrame, timer, snap, mu, wr, busVars, configVars>>

CallGetSnapshot ==
    /\ Len(ops) < MaxOps
    /\ \E at \in StatsTimes :
          /\ snap' = GetSnapshot(acc, at)
          /\ ops' = Append(ops, [op |-> "GetSnapshot", at |-> at])
    /\ UNCHANGED <<engineFrame, timer, acc, mu, wr, busVars, configVars>>

StatsInit ==
    /\ NoEngine
    /\ NoTimerUnit
    /\ NoStatsUnit
    /\ NoBusUnit
    /\ NoConfigUnit

StatsNext ==
    \/ CallAddCompletedPomodoro
    \/ CallAddSkippedPomodoro
    \/ CallAddCompletedBreak
    \/ CallAddSkippedBreak
    \/ CallStatsReset
    \/ CallImportJSON
    \/ CallGetSnapshot

StatsSpec == StatsInit /\ [][StatsNext]_vars

------------------------------------------------------------------------------
(* The SessionStats statement by statement: a thread that calls the        *)
(* recording methods and a thread that calls GetSnapshot, each step one     *)
(* operation on s.mu or one statement of the method.                        *)

\* The k-th statement of the recording call: the fields it assigns take the
\* values the method gives them.
RecordStatement(call, k, s) ==
    LET full == Record(call, s)
    IN  [f \in DOMAIN s |-> IF f \in StatementFields(k) THEN full[f] ELSE s[f]]

\* s.mu.Lock() of a recording method
RecordLock ==
    /\ wr.pc = 0
    /\ Len(ops) < MaxOps
    /\ MayLock(mu)
    /\ mu' = [mu EXCEPT !.writer = TRUE]
    /\ \E call \in RecordingCalls :
          wr' = [pc |-> 1, call |-> call, from |-> acc]
    /\ UNCHANGED <<engineFrame, timer, ops, acc, snap, busVars, configVars>>

\* one statement of the method
RecordStep ==
    /\ wr.pc \in 1..4
    /\ acc' = RecordStatement(wr.call, wr.pc, acc)
    /\ wr' = [wr EXCEPT !.pc = @ + 1]
    /\ UNCHANGED <<engineFrame, timer, ops, snap, mu, busVars, configVars>>

\* the deferred s.mu.Unlock()
RecordUnlock ==
    /\ wr.pc = 5
    /\ mu' = [mu EXCEPT !.writer = FALSE]
    /\ wr' = [wr EXCEPT !.pc = 0]
    /\ ops' = Append(ops, [op |-> wr.call.op, at |-> StatsNow])
    /\ UNCHANGED <<engineFrame, timer, acc, snap, busVars, configVars>>

\* s.mu.RLock() of GetSnapshot
SnapshotRLock ==
    /\ mu.readers = 0
    /\ Len(ops) < MaxOps
    /\ MayRLock(mu)
    /\ mu' = [mu EXCEPT !.readers = 1]
    /\ UNCHANGED <<engineFrame, timer, ops, acc, snap, wr, busVars,
                   configVars>>

\* the return of GetSnapshot, with the deferred s.mu.RUnlock()
SnapshotReturn ==
    /\ mu.readers = 1
    /\ \E at \in StatsTimes :
          /\ snap' = GetSnapshot(acc, at)
          /\ ops' = Append(ops, [op |-> "GetSnapshot", at |-> at])
    /\ mu' = [mu EXCEPT !.readers = 0]
    /\ UNCHANGED <<engineFrame, timer, acc, wr, busVars, configVars>>

StatsLockNext ==
    \/ RecordLock
    \/ RecordStep
    \/ RecordUnlock
    \/ SnapshotRLock
    \/ SnapshotReturn

StatsLockSpec == StatsInit /\ [][StatsLockNext]_vars

------------------------------------------------------------------------------
(* The EventBus on its own: a thread that subscribes handlers and publishes *)
(* events, and the goroutines Publish starts, each of which returns, never  *)
(* returns, or panics.                                                      *)

\* The calls made so far whose method is one of names.
CountOps(names) == Cardinality({i \in DOMAIN ops : ops[i].op \in names})

SubscribeOps == {"Subscribe", "SubscribeGlobal", "SubscribeGlobalFunc"}

\* The calling thread is not inside a call that waits for a handler, and the
\* process is alive.
PublisherFree ==
    /\ ~crashed
    /\ \A i \in DOMAIN tasks : ~tasks[i].awaited

CallSubscribe ==
    /\ PublisherFree
    /\ CountOps(SubscribeOps) < MaxSubs
    /\ \E t \in BusEventTypes, h \in Handlers :
          /\ bus' = Subscribe(bus, t, h)
          /\ ops' = Append(ops, [op |-> "Subscribe", type |-> t,
                                 handler |-> h])
    /\ UNCHANGED <<engineFrame, timer, statsVars, tasks, crashed, configVars>>

CallSubscribeGlobal ==
    /\ PublisherFree
    /\ CountOps(SubscribeOps) < MaxSubs
    /\ \E h \in Handlers :
          /\ bus' = SubscribeGlobal(bus, h)
          /\ ops' = Append(ops, [op |-> "SubscribeGlobal", type |-> "*",
                                 handler |-> h])
    /\ UNCHANGED <<engineFrame, timer, statsVars, tasks, crashed, configVars>>

CallSubscribeGlobalFunc ==
    /\ PublisherFree
    /\ CountOps(SubscribeOps) < MaxSubs
    /\ \E h \in Handlers :
          /\ bus' = SubscribeGlobalFunc(bus, h)
          /\ ops' = Append(ops, [op |-> "SubscribeGlobalFunc", type |-> "*",
                                 handler |-> h])
    /\ UNCHANGED <<engineFrame, timer, statsVars, tasks, crashed, configVars>>

CallUnsubscribe ==
    /\ PublisherFree
    /\ CountOps({"Unsubscribe"}) < MaxUnsubs
    /\ \E t \in BusEventTypes, h \in Handlers :
          /\ bus' = Unsubscribe(bus, t, h)
          /\ ops' = Append(ops, [op |-> "Unsubscribe", type |-> t,
                                 handler |-> h])
    /\ UNCHANGED <<engineFrame, timer, statsVars, tasks, crashed, configVars>>

\* Publish of the n-th event, n standing for its payload.
CallPublish ==
    /\ PublisherFree
    /\ CountOps({"Publish"}) < MaxPublish
    /\ \E t \in BusEventTypes :
          /\ tasks' = tasks \o
                      Dispatches(bus, Event(t, CountOps({"Publish"}) + 1))
          /\ ops' = Append(ops, [op |-> "Publish", type |-> t,
                                 handler |-> "none"])
    /\ UNCHANGED <<engineFrame, timer, statsVars, bus, crashed, configVars>>

\* a handler returns: its goroutine ends
HandlerReturn ==
    /\ ~crashed
    /\ \E i \in DOMAIN tasks :
          /\ tasks[i].pc = "started"
          /\ tasks' = [j \in 1..(Len(tasks) - 1) |->
                          IF j < i THEN tasks[j] ELSE tasks[j + 1]]
    /\ UNCHANGED <<engineFrame, timer, ops, statsVars, bus, crashed,
                   configVars>>

\* a handler blocks for ever
HandlerBlock ==
    /\ ~crashed
    /\ \E i \in DOMAIN tasks :
          /\ tasks[i].pc = "started"
          /\ tasks' = [tasks EXCEPT ![i].pc = "blocked"]
    /\ UNCHANGED <<engineFrame, timer, ops, statsVars, bus, crashed,
                   configVars>>

\* a handler panics: nothing recovers the panic of a goroutine started with
\* `go handler.HandleEvent(event)`, and the runtime ends the process.
HandlerPanic ==
    /\ ~crashed
    /\ \E i \in DOMAIN tasks :
          /\ tasks[i].pc = "started"
          /\ tasks' = [tasks EXCEPT ![i].pc = "panicked"]
    /\ crashed' = TRUE
    /\ UNCHANGED <<engineFrame, timer, ops, statsVars, bus, configVars>>

BusInit ==
    /\ NoEngine
    /\ NoTimerUnit
    /\ NoStatsUnit
    /\ NoBusUnit
    /\ NoConfigUnit

BusNext ==
    \/ CallSubscribe
    \/ CallSubscribeGlobal
    \/ CallSubscribeGlobalFunc
    \/ CallUnsubscribe
    \/ CallPublish
    \/ HandlerReturn
    \/ HandlerBlock
    \/ HandlerPanic

BusSpec == BusInit /\ [][BusNext]_vars

------------------------------------------------------------------------------
(* Config.Validate on its own: one call on a configuration whose fields are *)
(* taken at the ends of the ranges Validate tests and one quantum outside   *)
(* them.                                                                    *)

CandidateConfigs ==
    [WorkDuration : {Minute - 1, Minute, 120 * Minute, 120 * Minute + 1},
     ShortBreak : {Minute - 1, Minute, 5 * Minute, 30 * Minute,
                   30 * Minute + 1},
     LongBreak : {5 * Minute - 1, 5 * Minute, 30 * Minute, 60 * Minute,
                  60 * Minute + 1},
     LongBreakInterval : {1, 2, 10, 11}]

CallValidate ==
    /\ verdict = NotValidated
    /\ verdict' = Validate(candidate)
    /\ UNCHANGED <<engineFrame, timer, ops, statsVars, busVars, candidate>>

ConfigInit ==
    /\ NoEngine
    /\ NoTimerUnit
    /\ NoStatsUnit
    /\ NoBusUnit
    /\ candidate \in CandidateConfigs
    /\ verdict = NotValidated

ConfigNext == CallValidate

ConfigSpec == ConfigInit /\ [][ConfigNext]_vars

------------------------------------------------------------------------------
(* Vocabulary of the claims *)

Breaks == {SessionShortBreak, SessionLongBreak}

Last(q) == q[Len(q)]

\* This step starts an interval (only startNextSession advances the clock).
StartsInterval == now' = now + 1

\* This step starts the interval that follows a work interval.
EndsWork == StartsInterval /\ currentTimer.alloc /\ currentSession = SessionWork

\* The break the configuration prescribes after work interval number n.
BreakKindAfter(n) ==
    IF n % cfg.LongBreakInterval = 0 THEN SessionLongBreak
    ELSE SessionShortBreak

BreakDurationAfter(n) ==
    IF n % cfg.LongBreakInterval = 0 THEN cfg.LongBreak ELSE cfg.ShortBreak

------------------------------------------------------------------------------
(* C1 *)

------------------------------------------------------------------------------
(* C2 *)

\* C2: the first interval the engine ever starts is a work interval, and the
\* intervals it starts alternate: after a break comes work, after work comes
\* a break (never two breaks in a row, never two work intervals in a row).
C2_Alternation ==
    [][StartsInterval =>
        (Last(started') = SessionWork
            <=> (started = <<>> \/ Last(started) \in Breaks))]_vars

------------------------------------------------------------------------------
(* C3 *)

IsWorkRecord(r) == r.Type = "TRABAJO"

\* The work records of the statistics log, in order.
WorkRecords == SelectSeq(stats.CompletedSessions, IsWorkRecord)

\* The start times (ordinals) of the work intervals started so far.
WorkIntervals == {i \in 1..Len(started) : started[i] = SessionWork}

\* Interval i is the k-th work interval the engine started.
IsKthWork(i, k) ==
    /\ i \in WorkIntervals
    /\ Cardinality({j \in WorkIntervals : j <= i}) = k

\* C3: when the 2nd work interval is skipped (and no other one is), the
\* statistics show PomodorosSkipped = 1 and CurrentStreak = 0 once the skip
\* has been recorded.
C3_SkipSecondWork ==
    LET w == WorkRecords
    IN  (/\ w # <<>>
         /\ ~Last(w).Completed
         /\ IsKthWork(Last(w).StartTime, 2)
         /\ \A i \in 1..Len(w) :
               ~w[i].Completed => w[i].StartTime = Last(w).StartTime)
        => /\ stats.PomodorosSkipped = 1
           /\ stats.CurrentStreakCount = 0

------------------------------------------------------------------------------
(* C4 *)

\* The records of the statistics log for the interval started at time i.
RecordsOf(i) ==
    {k \in 1..Len(stats.CompletedSessions) :
        stats.CompletedSessions[k].StartTime = i}

\* Every work interval started so far ran to completion, as did every break
\* before the last interval, and nothing was skipped.
UninterruptedCompletions ==
    /\ started # <<>>
    /\ \A i \in 1..Len(started) :
          (started[i] = SessionWork \/ i < Len(started)) => RecordsOf(i) # {}
    /\ \A k \in 1..Len(stats.CompletedSessions) :
          stats.CompletedSessions[k].Completed

\* C4: after k work intervals and the breaks between them have all run to
\* completion with no skip, PomodorosCompleted = CurrentStreak = k (k = 4
\* with interval 4 in the scenario of the specification).
C4_UninterruptedCompletions ==
    UninterruptedCompletions =>
        /\ stats.PomodorosCompleted = Cardinality(WorkIntervals)
        /\ stats.CurrentStreakCount = Cardinality(WorkIntervals)

------------------------------------------------------------------------------
(* C5 *)

\* Two threads are inside Pause and Skip at the same time, and the control
\* loop has handled both commands.
PauseSkipHandled ==
    \E c, d \in Callers :
        /\ callers[c].action = "pause" /\ callers[c].reply # "none"
        /\ callers[d].action = "skip" /\ callers[d].reply # "none"

\* C5: when a Pause and a Skip issued together have both been handled and
\* the skip has ended the current interval, the statistics log holds at most
\* one completed-or-skipped record for that interval.
C5_NoDoubleRecord ==
    (PauseSkipHandled /\ currentTimer.alloc /\ IsSkipped(currentTimer))
        => Cardinality(RecordsOf(sessionStartTime)) <= 1

------------------------------------------------------------------------------
(* C6 *)

\* The scheduling the Go runtime provides: a goroutine that can run does run,
\* and a select with a ready case takes one.  The callers of the engine's
\* methods are under no obligation to call anything.
Fairness ==
    /\ WF_vars(LoopExit)
    /\ WF_vars(LoopReceive)
    /\ WF_vars(\E i \in 1..MaxLoops : LoopCommand(i))
    /\ WF_vars(LoopTick)
    /\ WF_vars(StartNextSession)
    /\ \A c \in Callers :
          /\ WF_vars(SendEnqueue(c) \/ SendCancelled(c))
          /\ WF_vars(SendReturn(c))

FairSpec == Init /\ [][Next]_vars /\ Fairness

\* C6: every Pause, Resume or Skip call eventually returns.
C6_CallsReturn ==
    \A c \in Callers : (callers[c].pc # "idle") ~> (callers[c].pc = "idle")

------------------------------------------------------------------------------
(* C7 *)

\* A step of sendCommand's running check, by any thread, for any command.
SendCommandStep ==
    \E c \in Callers, a \in {"pause", "resume", "skip"} : SendCommand(c, a)

\* C7: Pause, Resume and Skip on an engine that is not running return the
\* error "engine is not running" at once: the caller is not left inside
\* sendCommand, nothing is enqueued, and the engine, the countdown and the
\* statistics are unchanged.
C7_NotRunningError ==
    [][(SendCommandStep /\ ~isRunning) =>
        /\ ret'.err = ErrNotRunning
        /\ ret'.op \in {"pause", "resume", "skip"}
        /\ published' = <<>>
        /\ UNCHANGED <<engineVars, commandChan, callers, loops, pendingNext,
                       stats, started, now, handling>>]_vars

\* A command was refused on a stopped engine.
C7_Witness ==
    /\ ret.err = ErrNotRunning
    /\ state = StateStopped
    /\ ~isRunning

------------------------------------------------------------------------------
(* C8 *)

\* C8: a command handled while the engine is running and no interval exists
\* is answered with an error, never with success.
C8_NoIntervalError ==
    [][((\E i \in 1..MaxLoops : LoopCommand(i))
            /\ isRunning /\ ~currentTimer.alloc) =>
        \A c \in Callers :
            callers'[c].reply # callers[c].reply => callers'[c].reply # Nil]_vars

------------------------------------------------------------------------------
(* C9 *)

------------------------------------------------------------------------------
(* C10 *)

\* C10: once the engine is stopped it stays stopped, and not running.
C10_StoppedIsTerminal ==
    [][state = StateStopped => (state' = StateStopped /\ ~isRunning')]_vars

------------------------------------------------------------------------------
(* C11 *)

\* The types of the events the last step published.
PublishedTypes == {published[i].type : i \in DOMAIN published}

\* A call of Start that starts the engine.
StartsEngine == Start /\ ~isRunning

------------------------------------------------------------------------------
(* C12 *)

\* C12: between Start and the first StartFirstSession no countdown exists
\* and no event other than engine-started is published, whatever the loop
\* does in between.
C12_TwoPhaseStartup ==
    (isRunning /\ ~sfsCalled) =>
        /\ ~currentTimer.alloc
        /\ PublishedTypes \subseteq {EngineStarted}

------------------------------------------------------------------------------
(* C13 *)

\* C13: Stop on a running engine (paused or not) leaves the state stopped,
\* IsRunning false and the context cancelled, forces the countdown, if there
\* is one, to idle with its full duration remaining, and publishes exactly
\* one event, engine-stopped; Stop on an engine that is not running publishes
\* nothing and changes nothing.
C13_Stop ==
    [][Stop =>
        IF isRunning
        THEN /\ state' = StateStopped
             /\ ~isRunning'
             /\ ctx' = "cancelled"
             /\ currentTimer' =
                    IF currentTimer.alloc
                    THEN [currentTimer EXCEPT
                            !.state = TimerIdle,
                            !.remaining = currentTimer.duration]
                    ELSE currentTimer
             /\ published' = <<Event(EngineStopped, "none")>>
        ELSE /\ published' = <<>>
             /\ UNCHANGED <<engineVars, commandChan, loops, pendingNext,
                            callers, stats, started, now, handling>>]_vars

\* Stop has just stopped an engine whose countdown had ended or had run for
\* a while: the countdown is idle with its full duration again.
C13_Witness ==
    /\ PublishedTypes = {EngineStopped}
    /\ state = StateStopped
    /\ currentTimer.alloc
    /\ currentTimer.state = TimerIdle
    /\ currentTimer.remaining = currentTimer.duration
    /\ currentSession = SessionLongBreak

------------------------------------------------------------------------------
(* C14 *)

\* C14: a Stop that stops the engine publishes a statistics event.
C14_StopPublishesStats ==
    [][(Stop /\ isRunning) => StatsUpdated \in PublishedTypes']_vars

------------------------------------------------------------------------------
(* C15 *)

\* C15: once the context is cancelled and the control loops have exited,
\* the countdown is neither running nor paused.
C15_CancelStopsCountdown ==
    (ctx = "cancelled" /\ loops = 0 /\ currentTimer.alloc) =>
        (~IsRunning(currentTimer) /\ ~IsPaused(currentTimer))

------------------------------------------------------------------------------
(* C16 *)

\* C16: the command a loop handles is the oldest one received from the queue
\* and not yet handled (the queue itself is first-in-first-out, and a loop
\* receives one command per iteration).
C16_HandledInOrder ==
    [][(\E i \in 1..MaxLoops : LoopCommand(i)) => LoopCommand(1)]_vars

------------------------------------------------------------------------------
(* C17 *)

\* C17: the configuration the engine keeps is a clone of the one it was
\* given, GetConfig returns a clone, and no event carries a reference to the
\* configuration the engine keeps.
C17_NoSharedConfig ==
    /\ NewEngineConfig # EngineConfigRef
    /\ GetConfig # EngineConfigRef
    /\ \A i \in DOMAIN published : published[i].data # EngineConfigRef

------------------------------------------------------------------------------
(* C18 *)

\* The Timer was started and then only ticked.
StartedThenTicked ==
    /\ ops # <<>>
    /\ ops[1] = "Start"
    /\ \A i \in 2..Len(ops) : ops[i] = "Tick"

\* C18: a Timer of d whole seconds, started and then only ticked, is running
\* with d - k seconds left after k < d ticks, and done with nothing left
\* after d ticks and after every later tick.
C18_DoneOnDthTick ==
    (StartedThenTicked /\ timer.duration % Second = 0) =>
        LET d == timer.duration \div Second
            k == Len(ops) - 1
        IN  IF k < d
            THEN /\ IsRunning(timer)
                 /\ timer.remaining = (d - k) * Second
            ELSE /\ IsFinished(timer)
                 /\ timer.remaining = 0

\* A Timer of two seconds after Start and three ticks.
C18_Witness ==
    /\ StartedThenTicked
    /\ timer.duration = 2 * Second
    /\ Len(ops) = 4
    /\ IsFinished(timer)

------------------------------------------------------------------------------
(* C19 *)

\* C19: a tick of a paused Timer changes nothing of it: the remaining time
\* and the paused state stay as they are, tick after tick.
C19_PausedTickFrame ==
    [][(IsPaused(timer) /\ ops' = Append(ops, "Tick")) =>
        timer' = timer]_vars

\* A Timer paused after one tick and then ticked twice.
C19_Witness ==
    /\ Len(ops) >= 5
    /\ SubSeq(ops, Len(ops) - 4, Len(ops)) =
          <<"Start", "Tick", "Pause", "Tick", "Tick">>
    /\ IsPaused(timer)
    /\ timer.remaining = timer.duration - Second

------------------------------------------------------------------------------
(* C20 *)

\* C20: Skip turns a running or paused Timer into a skipped one and changes
\* nothing else of it; on a Timer in any other state (skipped already, idle
\* or done) it changes nothing.
C20_Skip ==
    [][ops' = Append(ops, "Skip") =>
        timer' = IF timer.state \in {TimerRunning, TimerPaused}
                 THEN [timer EXCEPT !.state = TimerSkipped]
                 ELSE timer]_vars

\* A paused Timer skipped twice.
C20_Witness ==
    /\ Len(ops) >= 4
    /\ SubSeq(ops, Len(ops) - 3, Len(ops)) =
          <<"Start", "Pause", "Skip", "Skip">>
    /\ IsSkipped(timer)

------------------------------------------------------------------------------
(* C21 *)

\* C21: in every reachable state of a Timer created with any positive
\* duration, a whole number of seconds or not, the snapshot has
\* 0 <= Remaining <= Duration, and so a Progress between 0 and 1.
C21_RemainingInRange ==
    timer.alloc =>
        LET s == CreateSnapshot(timer)
        IN  /\ 0 <= s.Remaining
            /\ s.Remaining <= s.Duration
            /\ 0 <= s.Progress.num
            /\ s.Progress.num <= s.Progress.den

------------------------------------------------------------------------------
(* C22 *)

\* The step is a call of the method named name on the accumulator.
StatsCalled(name) ==
    /\ Len(ops') = Len(ops) + 1
    /\ ops'[Len(ops')].op = name

\* The calls made so far are recording calls, snapshots and resets.
NothingImported == \A i \in 1..Len(ops) : ops[i].op # "ImportJSON"

\* C22: over any sequence of recording operations, a skipped work interval
\* sets CurrentStreak to 0, a completed work interval increments it by one,
\* no recording operation lowers BestStreak, and every snapshot shows
\* BestStreak >= CurrentStreak.
C22_Streaks ==
    [][/\ StatsCalled("AddSkippedPomodoro") => acc'.CurrentStreakCount = 0
       /\ StatsCalled("AddCompletedPomodoro") =>
              acc'.CurrentStreakCount = acc.CurrentStreakCount + 1
       /\ (\E o \in RecordingOps : StatsCalled(o)) =>
              acc'.BestStreakCount >= acc.BestStreakCount
       /\ (StatsCalled("GetSnapshot") /\ NothingImported) =>
              snap'.BestStreak >= snap'.CurrentStreak]_vars

\* Two work intervals completed, one skipped, one more completed, and the
\* snapshot taken then: a current streak of 1 under a best streak of 2.
C22_Witness ==
    /\ Len(ops) = 5
    /\ [i \in 1..5 |-> ops[i].op] =
          <<"AddCompletedPomodoro", "AddCompletedPomodoro",
            "AddSkippedPomodoro", "AddCompletedPomodoro", "GetSnapshot">>
    /\ snap.CurrentStreak = 1
    /\ snap.BestStreak = 2

------------------------------------------------------------------------------
(* C23 *)

\* C23: the WorkEfficiency of a snapshot is 0 when no work interval has
\* been recorded, 100 when at least one was completed and none skipped, and
\* otherwise completed/(completed+skipped)*100, with the PomodorosCompleted
\* and PomodorosSkipped of that same snapshot.
C23_WorkEfficiency ==
    snap # NoSnapshot =>
        LET c == snap.PomodorosCompleted
            k == snap.PomodorosSkipped
            e == snap.WorkEfficiency
        IN  /\ e.den > 0
            /\ c + k = 0 => e.num = 0
            /\ (c >= 1 /\ k = 0) => e.num = 100 * e.den
            /\ c + k > 0 => e.num * (c + k) = c * 100 * e.den

\* A snapshot with one work interval completed and two skipped: a third.
C23_Witness ==
    /\ snap # NoSnapshot
    /\ snap.PomodorosCompleted = 1
    /\ snap.PomodorosSkipped = 2
    /\ 3 * snap.WorkEfficiency.num = 100 * snap.WorkEfficiency.den

------------------------------------------------------------------------------
(* C25 *)

\* The snapshot of an accumulator with nothing recorded, taken d after its
\* session start.
EmptySnapshot(d) ==
    [PomodorosCompleted |-> 0, PomodorosSkipped |-> 0, BreaksCompleted |-> 0,
     BreaksSkipped |-> 0, LongBreaksCompleted |-> 0, CurrentStreak |-> 0,
     BestStreak |-> 0, TotalWorkTime |-> 0, TotalBreakTime |-> 0,
     SessionDuration |-> d, WorkEfficiency |-> [num |-> 0, den |-> 1],
     TotalSessions |-> 0]

\* C25: Reset empties the log and sets the session start to the instant of
\* the call, and the snapshot taken next has every counter, both accumulated
\* durations, both streaks and the total interval count at zero, with a
\* session duration counted from the reset (zero when taken at once).
C25_Reset ==
    [][/\ StatsCalled("Reset") =>
              /\ acc'.CompletedSessions = <<>>
              /\ acc'.SessionStartTime = ops'[Len(ops')].at
       /\ (StatsCalled("GetSnapshot") /\ ops # <<>> /\
           ops[Len(ops)].op = "Reset") =>
              snap' = EmptySnapshot(ops'[Len(ops')].at - ops[Len(ops)].at)]_vars

\* Work completed and skipped and a long break completed, with a best streak
\* of 1, then Reset at a later time and a snapshot at that same time.
C25_Witness ==
    /\ Len(ops) = 5
    /\ [i \in 1..5 |-> ops[i].op] =
          <<"AddCompletedPomodoro", "AddSkippedPomodoro",
            "AddCompletedBreak", "Reset", "GetSnapshot">>
    /\ ops[4].at = 1
    /\ snap = EmptySnapshot(0)
    /\ acc.CompletedSessions = <<>>

------------------------------------------------------------------------------
(* C24 *)

\* C24: a snapshot taken while a recording call is under way shows the
\* accumulator with none of the updates of that call or with all of them
\* (counter, accumulated duration, streak, log entry), never with some; and
\* a call that returns has made all its updates.
C24_RecordAtomic ==
    [][/\ SnapshotReturn =>
              \E t \in StatsTimes :
                  snap' \in
                     {GetSnapshot(IF wr.pc = 0 THEN acc ELSE wr.from, t),
                      GetSnapshot(IF wr.pc = 0 THEN acc
                                  ELSE Record(wr.call, wr.from), t)}
       /\ RecordUnlock => acc = Record(wr.call, wr.from)]_vars

\* The recording thread between two statements of a completed work
\* interval, counter and duration updated and streak not, while the reader
\* is kept out and the last snapshot shows none of it; the accumulator had a
\* skipped work interval before.
C24_Witness ==
    /\ wr.pc = 3
    /\ wr.call.op = "AddCompletedPomodoro"
    /\ acc.PomodorosCompleted = 1
    /\ acc.CurrentStreakCount = 0
    /\ ~MayRLock(mu)
    /\ snap # NoSnapshot
    /\ snap = GetSnapshot(wr.from, snap.SessionDuration)
    /\ snap.PomodorosSkipped = 1

------------------------------------------------------------------------------
(* C26 *)

\* The calls of Subscribe made so far for the type t and the handler h.
SubscribedTo(t, h) ==
    Cardinality({i \in DOMAIN ops :
                    /\ ops[i].op = "Subscribe"
                    /\ ops[i].type = t
                    /\ ops[i].handler = h})

\* The wildcard subscriptions made so far for the handler h.
SubscribedAll(h) ==
    Cardinality({i \in DOMAIN ops :
                    /\ ops[i].op \in {"SubscribeGlobal", "SubscribeGlobalFunc"}
                    /\ ops[i].handler = h})

\* The goroutines among ts that hand the event e to the handler h.
DispatchedTo(ts, h, e) ==
    Cardinality({i \in DOMAIN ts : ts[i].handler = h /\ ts[i].event = e})

\* C26: Publish hands the event once to every handler for each subscription
\* of it to the event's type and once for each wildcard subscription of it
\* made before the call, and to no handler subscribed to another type only;
\* with no matching handler it starts nothing and fails in no way.  (The
\* subscriptions are those made and never withdrawn: Unsubscribe is the
\* subject of C31.)
C26_PublishDispatch ==
    [][(CallPublish /\ CountOps({"Unsubscribe"}) = 0) =>
          LET e == Event(ops'[Len(ops')].type, CountOps({"Publish"}) + 1)
          IN  /\ \A h \in Handlers :
                    DispatchedTo(tasks', h, e) =
                        SubscribedTo(e.type, h) + SubscribedAll(h)
              /\ crashed' = crashed]_vars

\* A handler subscribed to the tick events and a wildcard handler: the first
\* event, a tick, handed to both, and the second, of the other type, to the
\* wildcard handler only.
C26_Witness ==
    /\ Len(ops) = 4
    /\ ops[1] = [op |-> "Subscribe", type |-> TimerTick, handler |-> "h1"]
    /\ ops[2].op = "SubscribeGlobalFunc" /\ ops[2].handler = "h2"
    /\ ops[3].type = TimerTick
    /\ ops[4].type = StatsUpdated
    /\ [i \in 1..Len(tasks) |-> <<tasks[i].handler, tasks[i].event.data>>] =
          <<<<"h2", 1>>, <<"h1", 1>>, <<"h2", 2>>>>

------------------------------------------------------------------------------
(* C27 *)

\* C27: Publish waits for no handler: whatever the handlers started so far
\* are doing, one that never returns included, the publishing thread is free
\* to publish the next event.
C27_PublishNeverWaits ==
    (~crashed /\ CountOps({"Publish"}) < MaxPublish) => ENABLED CallPublish

\* The handler of the first event blocked for ever, and the second event
\* handed to the other handler after it.
C27_Witness ==
    /\ ~crashed
    /\ \E i, j \in DOMAIN tasks :
          /\ i < j
          /\ tasks[i].pc = "blocked"
          /\ tasks[i].event.data = 1
          /\ tasks[j].event.data = 2
          /\ tasks[j].handler # tasks[i].handler

------------------------------------------------------------------------------
(* C28 *)

\* C28: a handler that panics does not take the publisher down: the process
\* lives on and the publishing thread is free to publish the next event.
C28_PanicContained ==
    (\E i \in DOMAIN tasks : tasks[i].pc = "panicked") =>
        /\ ~crashed
        /\ CountOps({"Publish"}) < MaxPublish => ENABLED CallPublish

------------------------------------------------------------------------------
(* C29 *)

\* C29: Validate succeeds if and only if the work duration is within
\* [1 minute, 2 hours], the short break within [1 minute, 30 minutes], the
\* long break within [5 minutes, 1 hour], the long break strictly longer
\* than the short break, and the long-break interval within [2, 10].
C29_Validate ==
    verdict # NotValidated =>
        (verdict = Nil <=>
            /\ Minute <= candidate.WorkDuration
            /\ candidate.WorkDuration <= 2 * 60 * Minute
            /\ Minute <= candidate.ShortBreak
            /\ candidate.ShortBreak <= 30 * Minute
            /\ 5 * Minute <= candidate.LongBreak
            /\ candidate.LongBreak <= 60 * Minute
            /\ candidate.LongBreak > candidate.ShortBreak
            /\ 2 <= candidate.LongBreakInterval
            /\ candidate.LongBreakInterval <= 10)

\* A configuration with every field within its range and a long break of
\* five minutes, as long as the short break: refused.
C29_Witness ==
    /\ verdict \notin {NotValidated, Nil}
    /\ candidate = [WorkDuration |-> 120 * Minute, ShortBreak |-> 5 * Minute,
                    LongBreak |-> 5 * Minute, LongBreakInterval |-> 10]

------------------------------------------------------------------------------
(* C30 *)

\* C30: the engine's count of work intervals never decreases, and the step
\* in which a work interval completes, the one that publishes the
\* work-completion event, is the step that adds one to it: the events are
\* published with the count already updated.
C30_CountedAtCompletion ==
    [][/\ pomodoroCount' >= pomodoroCount
       /\ (LoopTick /\
           \E i \in DOMAIN published' :
               published'[i].type = PomodoroCompleted) =>
              pomodoroCount' = pomodoroCount + 1]_vars

------------------------------------------------------------------------------
(* C31 *)

\* The handler h stands in the list of the type t.
IsSubscribed(b, t, h) == \E i \in DOMAIN b.handlers[t] : b.handlers[t][i] = h

\* C31: Unsubscribe of a handler subscribed to the type leaves the
\* subscriber count of the type one lower, and the events of that type
\* published afterwards are handed to the handlers that are still in the
\* list only.
C31_Unsubscribe ==
    [][(CallUnsubscribe /\
        IsSubscribed(bus, ops'[Len(ops')].type, ops'[Len(ops')].handler)) =>
           GetSubscriberCount(bus', ops'[Len(ops')].type) =
               GetSubscriberCount(bus, ops'[Len(ops')].type) - 1]_vars

------------------------------------------------------------------------------
(* C32 *)

\* The step is a call of the method named op on the Timer.
TimerCalled(op) == ops' = Append(ops, op)

------------------------------------------------------------------------------
(* C33 *)

\* C33: recording a completed or skipped break leaves CurrentStreak,
\* BestStreak, PomodorosCompleted, PomodorosSkipped and the total work time
\* as they are, adds one record to the log and one to the counter of
\* completed or of skipped breaks, and adds one to LongBreaksCompleted when
\* the break is a completed long break and nothing otherwise.
C33_BreakFrame ==
    [][(StatsCalled("AddCompletedBreak") \/ StatsCalled("AddSkippedBreak")) =>
          LET rec == acc'.CompletedSessions[Len(acc'.CompletedSessions)]
          IN  /\ acc'.CurrentStreakCount = acc.CurrentStreakCount
              /\ acc'.BestStreakCount = acc.BestStreakCount
              /\ acc'.PomodorosCompleted = acc.PomodorosCompleted
              /\ acc'.PomodorosSkipped = acc.PomodorosSkipped
              /\ acc'.TotalWorkTime = acc.TotalWorkTime
              /\ acc'.SessionStartTime = acc.SessionStartTime
              /\ Len(acc'.CompletedSessions) = Len(acc.CompletedSessions) + 1
              /\ acc'.BreaksCompleted =
                    acc.BreaksCompleted + (IF rec.Completed THEN 1 ELSE 0)
              /\ acc'.BreaksSkipped =
                    acc.BreaksSkipped + (IF rec.Completed THEN 0 ELSE 1)
              /\ acc'.LongBreaksCompleted =
                    acc.LongBreaksCompleted +
                    (IF rec.Completed /\ rec.Type = "DESCANSO LARGO"
                     THEN 1 ELSE 0)]_vars

\* A work interval completed, then a long break skipped and a long break
\* completed: the streak still 1, one long break counted.
C33_Witness ==
    /\ Len(ops) = 3
    /\ [i \in 1..3 |-> ops[i].op] =
          <<"AddCompletedPomodoro", "AddSkippedBreak", "AddCompletedBreak">>
    /\ acc.CompletedSessions[2].Type = "DESCANSO LARGO"
    /\ acc.CompletedSessions[3].Type = "DESCANSO LARGO"
    /\ acc.CurrentStreakCount = 1
    /\ acc.BreaksSkipped = 1
    /\ acc.LongBreaksCompleted = 1

------------------------------------------------------------------------------
(* C34 *)

\* The number of work intervals among the first k intervals started.
WorksAmong(k) ==
    Cardinality({i \in 1..k : started[i] = SessionWork})

\* C34: the pomodoro-started event of the N-th work interval carries the
\* number N, and so does the pomodoro-completed or pomodoro-skipped event
\* that ends that interval.
C34_SameNumber ==
    [][\A i \in DOMAIN published' :
          /\ (StartNextSession /\ published'[i].type = PomodoroStarted) =>
                published'[i].data.Number =
                    Cardinality({k \in DOMAIN started' :
                                    started'[k] = SessionWork})
          /\ (LoopTick /\
              published'[i].type \in {PomodoroCompleted, PomodoroSkipped}) =>
                published'[i].data.Number =
                    WorksAmong(published'[i].data.StartTime)]_vars

------------------------------------------------------------------------------
(* C35 *)

\* C35: as long as no interval has been completed or skipped, the calls of
\* StartFirstSession, however many, have started at most one interval, a work
\* interval, and the pomodoro counter is 0.
C35_OneFirstInterval ==
    getTotalSessions(stats) = 0 =>
        /\ Len(started) <= 1
        /\ \A i \in DOMAIN started : started[i] = SessionWork
        /\ pomodoroCount = 0

------------------------------------------------------------------------------
(* C36 *)

\* The work intervals the statistics count as completed or as skipped.
WorkIntervalsCounted == stats.PomodorosCompleted + stats.PomodorosSkipped

\* A break interval is the current one.
BreakIsCurrent ==
    currentTimer.alloc /\ currentSession \in {SessionShortBreak, SessionLongBreak}

\* Fewer than three calls were made, so that no Start has followed a Stop:
\* the engine is in its first cycle.
FirstCycle == MaxCalls - calls < 3

\* C36: the pomodoro counter never exceeds the number of work intervals
\* recorded as completed or skipped, and within the first cycle it equals
\* that number whenever the current interval is a break.
C36_CountMatchesRecords ==
    /\ pomodoroCount <= WorkIntervalsCounted
    /\ (FirstCycle /\ BreakIsCurrent) => pomodoroCount = WorkIntervalsCounted

------------------------------------------------------------------------------
(* C37 *)

\* The events that report the end of an interval or of its countdown.
EndEvents ==
    {TimerCompleted, TimerSkippedEvent, PomodoroCompleted, PomodoroSkipped,
     BreakCompleted, BreakSkipped}

\* C37: a tick that finds the statistics already holding a record of the
\* current interval records nothing more, publishes no completion or skip
\* event and schedules no further start of a next interval.
C37_OncePerInterval ==
    [][(LoopTick /\ RecordsOf(sessionStartTime) # {}) =>
          /\ stats' = stats
          /\ pendingNext' = pendingNext
          /\ \A i \in DOMAIN published' :
                published'[i].type \notin EndEvents]_vars

------------------------------------------------------------------------------
(* C38 *)

\* The step publishes an event of the given type.
Publishes(type) == \E i \in DOMAIN published' : published'[i].type = type

\* The step handles a command of the given kind.
Handles(action) ==
    \E i \in DOMAIN handling : handling[i].action = action /\ LoopCommand(i)

\* The step keeps the current countdown: no interval is started.
SameCountdown == currentTimer.alloc /\ sessionStartTime' = sessionStartTime

\* C38: a timer-paused event is published exactly by the steps that take the
\* current countdown from running to paused, and a timer-resumed event
\* exactly by the steps that take it from paused to running, so that within
\* an interval, whose countdown starts running, the two strictly alternate
\* and the first is a timer-paused event.  A pause handled while the
\* countdown is paused, and a resume handled while it is running, answer
\* success, publish nothing and change neither the countdown nor the engine
\* state.
C38_PauseResumeAlternate ==
    [][/\ Publishes(TimerPausedEvent) <=>
            (SameCountdown /\ IsRunning(currentTimer) /\ IsPaused(currentTimer'))
       /\ Publishes(TimerResumed) <=>
            (SameCountdown /\ IsPaused(currentTimer) /\ IsRunning(currentTimer'))
       /\ ((Handles("pause") /\ IsPaused(currentTimer)) \/
           (Handles("resume") /\ IsRunning(currentTimer))) =>
              /\ published' = <<>>
              /\ currentTimer' = currentTimer
              /\ state' = state
              /\ \E c \in Callers : /\ callers[c].reply = "none"
                                    /\ callers'[c].reply = Nil]_vars

\* Two threads called Pause in the first interval and both calls were handled,
\* the second while the countdown was paused.
C38_Witness ==
    /\ \E c, d \in Callers :
          /\ c # d
          /\ callers[c].action = "pause" /\ callers[c].reply = Nil
          /\ callers[d].action = "pause" /\ callers[d].reply = Nil
    /\ currentTimer.alloc /\ IsPaused(currentTimer)
    /\ state = StatePaused
    /\ Len(started) = 1

------------------------------------------------------------------------------
(* C39 *)

\* C39: the engine reports the paused state exactly when its current
\* countdown is paused.
C39_PausedIffCountdownPaused ==
    (state = StatePaused) <=> (currentTimer.alloc /\ IsPaused(currentTimer))

------------------------------------------------------------------------------
(* C40 *)

\* The scheduled start that runs was scheduled before the engine was last
\* stopped: the engine is stopped, or it was started again and
\* StartFirstSession has not been called since.
ScheduledBeforeStop == ~isRunning \/ ~sfsCalled

\* C40: a start of the next interval that was scheduled before Stop creates no
\* countdown, changes neither the interval kind nor the pomodoro counter and
\* publishes nothing.
C40_NoStartAfterStop ==
    [][(StartNextSession /\ ScheduledBeforeStop) =>
          /\ UNCHANGED <<currentTimer, currentSession, pomodoroCount, started>>
          /\ published' = <<>>]_vars

====
